---- MODULE Spec2Model ----
(***************************************************************************)
(* A model of llq (src/src/lib.rs): a wait-free single-producer            *)
(* single-consumer linked-list queue whose nodes are allocated apart from  *)
(* the queue and can be reused on other queues.                            *)
(*                                                                         *)
(* The heap is a set of cells (NodeInner) addressed 1..MaxCells; an        *)
(* address is never handed out twice, so a use after free or a double free *)
(* is visible as an access to a cell that is not "live".  Every step of    *)
(* push and pop that touches memory another thread can touch is an action  *)
(* of its own; thread-local work is folded into the next such step.  Steps  *)
(* interleave; what the orderings of the two atomic accesses to a link add *)
(* is kept in rel and acq: a release store publishes the payload written   *)
(* before it, an acquire load that reads such a store makes it visible,    *)
(* and a copy of a payload that is not visible is a data race.             *)
(***************************************************************************)
EXTENDS Integers, Sequences, FiniteSets

\* ------------------------------------------------------------------ bounds

\* Number of heap cells ever allocated (sentinels included).
MaxCells == 4

\* Number of pushes recorded per queue.
MaxPush == 3

\* Number of pushes recorded over both queues by the client of two queues.
MaxMoves == 4

\* Items carrying false that tests::multithreaded pushes before the true one
\* (10000 in the test): as many as the heap has room for beside the sentinel
\* and the node carrying true.
MTItems == MaxCells - 2

\* ------------------------------------------------------------- vocabulary

\* ptr::null_mut()
Null == 0

\* The bits of a data slot that was never written (MaybeUninit::uninit()).
Garbage == 0

\* The payloads false and true of tests::multithreaded (T = bool).
ValFalse == 1
ValTrue == 2

\* The two queues of tests::multiple_queues and of the crate's second example.
Queues == {"A", "B"}

Cells == 1..MaxCells

Payloads == 1..MaxCells

VARIABLES
    heap,       \* heap[c]: "unalloc", "live" or "freed" (Box::new / Box::from_raw + drop)
    next,       \* next[c]: NodeInner::next
    data,       \* data[c]: the bits of NodeInner::data
    init,       \* init[c]: whether data[c] logically holds a T (the MaybeUninit discipline)
    nalloc,     \* cells allocated so far; the next address is nalloc + 1
    nodes,      \* cells wrapped by a Node handle that a caller owns
    held,       \* held[p]: copies of payload p a caller got from into_inner and still owns
    dropCount,  \* dropCount[p]: times the destructor of payload p has run
    made,       \* payloads that Node::new has put into a cell
    qst,        \* qst[q]: "none", "new" (a Queue value), "split", "dropped"
    head,       \* head[q]: Queue::head
    rc,         \* rc[q]: strong count of the Arc<Queue>
    qdrops,     \* qdrops[q]: times <Queue as Drop>::drop has run
    tail,       \* tail[q]: Producer::tail
    ppc,        \* ppc[q]: where the producer of q is
    pnode,      \* pnode[q]: push's local node_ptr
    cpc,        \* cpc[q]: where the consumer of q is
    chead,      \* chead[q]: pop's local head
    cnext,      \* cnext[q]: pop's local next
    cres,       \* cres[q]: what the last finished pop returned: "nopop", "none", "some"
    pushed,     \* pushed[q]: payloads passed to push, in order
    popped,     \* popped[q]: payloads returned by successful pops, in order
    ub,         \* an access to a cell that is not live, a destructor run on garbage, or a data race
    rel,        \* cells linked into a list by a store that published the payload written before it
    acq,        \* acq[q]: the load that gave pop of q its local next synchronized with that store
    t1pc,       \* tests::multithreaded: thread1's position
    t2pc,       \* tests::multithreaded: thread2's position
    iter,       \* tests::multithreaded: thread1's loop index
    counter,    \* tests::multithreaded: thread2's counter
    t1node,     \* tests::multithreaded: the node thread1 has made and not yet pushed
    t2node      \* tests::multithreaded: the node bound by `if let Some(node)`

heapv == <<heap, next, data, init, nalloc>>
ownv == <<nodes, held, dropCount, made>>
queuev == <<qst, head, rc, qdrops>>
prodv == <<tail, ppc, pnode>>
consv == <<cpc, chead, cnext, cres>>
histv == <<pushed, popped>>
syncv == <<rel, acq>>
client == <<t1pc, t2pc, iter, counter, t1node, t2node>>
vars == <<heapv, ownv, queuev, prodv, consv, histv, ub, syncv, client>>

\* ---------------------------------------------------------------- helpers

Live(c) == c \in Cells /\ heap[c] = "live"

\* The cells a walk along next visits from c, at most fuel of them.
RECURSIVE ChainFrom(_, _)
ChainFrom(c, fuel) ==
    IF c = Null \/ fuel = 0 THEN <<>>
    ELSE <<c>> \o ChainFrom(next[c], fuel - 1)

\* How many positions of the sequence s satisfy data[s[i]] = p.
CountData(s, p) == Cardinality({i \in DOMAIN s : data[s[i]] = p})

\* The store of push with Ordering::Relaxed: the link can become visible
\* before the payload written earlier.
StoreOrderingRelaxed == "Relaxed"

\* Ordering::Release in push (a store that publishes what was written before it).
StoreOrdering == "Release"

\* Ordering::Acquire in pop (a load after which what was published is visible).
LoadOrdering == "Acquire"

\* The orderings of std::sync::atomic::Ordering under which a store is a release
\* operation and a load an acquire operation.
Releases(ord) == ord \in {"Release", "AcqRel", "SeqCst"}

Acquires(ord) == ord \in {"Acquire", "AcqRel", "SeqCst"}

NoRepeat(s) == \A i, j \in DOMAIN s : i # j => s[i] # s[j]

Init ==
    /\ heap = [c \in Cells |-> "unalloc"]
    /\ next = [c \in Cells |-> Null]
    /\ data = [c \in Cells |-> Garbage]
    /\ init = [c \in Cells |-> FALSE]
    /\ nalloc = 0
    /\ nodes = {}
    /\ held = [p \in Payloads |-> 0]
    /\ dropCount = [p \in Payloads |-> 0]
    /\ made = {}
    /\ qst = [q \in Queues |-> "none"]
    /\ head = [q \in Queues |-> Null]
    /\ rc = [q \in Queues |-> 0]
    /\ qdrops = [q \in Queues |-> 0]
    /\ tail = [q \in Queues |-> Null]
    /\ ppc = [q \in Queues |-> "none"]
    /\ pnode = [q \in Queues |-> Null]
    /\ cpc = [q \in Queues |-> "none"]
    /\ chead = [q \in Queues |-> Null]
    /\ cnext = [q \in Queues |-> Null]
    /\ cres = [q \in Queues |-> "nopop"]
    /\ pushed = [q \in Queues |-> <<>>]
    /\ popped = [q \in Queues |-> <<>>]
    /\ ub = FALSE
    /\ rel = {}
    /\ acq = [q \in Queues |-> FALSE]
    /\ t1pc = "idle"
    /\ t2pc = "idle"
    /\ iter = 0
    /\ counter = 0
    /\ t1node = Null
    /\ t2node = Null

\* ------------------------------------------------------------------- Node

\* Node::new(v): one cell, data written, next null.
NodeNew(v) ==
    /\ ~ub
    /\ nalloc < MaxCells
    /\ LET c == nalloc + 1 IN
        /\ heap' = [heap EXCEPT ![c] = "live"]
        /\ next' = [next EXCEPT ![c] = Null]
        /\ data' = [data EXCEPT ![c] = v]
        /\ init' = [init EXCEPT ![c] = TRUE]
        /\ nalloc' = c
        /\ nodes' = nodes \cup {c}
    /\ made' = made \cup {v}
    /\ UNCHANGED <<held, dropCount, queuev, prodv, consv, histv, ub, syncv>>

\* NodeIntoInner without Box::from_raw: the handle is forgotten, the cell stays.
NodeIntoInnerLeak(c) ==
    /\ ~ub
    /\ c \in nodes
    /\ nodes' = nodes \ {c}
    /\ init' = [init EXCEPT ![c] = FALSE]
    /\ held' = IF data[c] \in Payloads THEN [held EXCEPT ![data[c]] = @ + 1] ELSE held
    /\ ub' = (ub \/ ~Live(c) \/ ~init[c])
    /\ UNCHANGED <<heap, next, data, nalloc, dropCount, made, queuev, prodv, consv, histv, syncv>>

\* Node::into_inner(this): the payload is read out, the cell is freed, no
\* destructor runs; the caller now owns the value.
NodeIntoInner(c) ==
    /\ ~ub
    /\ c \in nodes
    /\ nodes' = nodes \ {c}
    /\ heap' = [heap EXCEPT ![c] = "freed"]
    /\ init' = [init EXCEPT ![c] = FALSE]
    /\ held' = IF data[c] \in Payloads THEN [held EXCEPT ![data[c]] = @ + 1] ELSE held
    /\ ub' = (ub \/ ~Live(c) \/ ~init[c])
    /\ UNCHANGED <<next, data, nalloc, dropCount, made, queuev, prodv, consv, histv, syncv>>

\* The caller drops a value it got from into_inner: T's destructor runs.
ValueDrop(p) ==
    /\ ~ub
    /\ held[p] > 0
    /\ held' = [held EXCEPT ![p] = @ - 1]
    /\ dropCount' = [dropCount EXCEPT ![p] = @ + 1]
    /\ UNCHANGED <<heapv, nodes, made, queuev, prodv, consv, histv, ub, syncv>>

\* <Node as Drop>::drop: the payload's destructor runs in place, the cell is freed.
NodeDrop(c) ==
    /\ ~ub
    /\ c \in nodes
    /\ nodes' = nodes \ {c}
    /\ dropCount' = IF data[c] \in Payloads THEN [dropCount EXCEPT ![data[c]] = @ + 1]
                    ELSE dropCount
    /\ heap' = [heap EXCEPT ![c] = "freed"]
    /\ init' = [init EXCEPT ![c] = FALSE]
    /\ ub' = (ub \/ ~Live(c) \/ ~init[c])
    /\ UNCHANGED <<next, data, nalloc, held, made, queuev, prodv, consv, histv, syncv>>

\* ------------------------------------------------------------------ Queue

\* Queue::new(): one sentinel cell, data uninitialized, next null.
QueueNew(q) ==
    /\ ~ub
    /\ qst[q] = "none"
    /\ nalloc < MaxCells
    /\ LET c == nalloc + 1 IN
        /\ heap' = [heap EXCEPT ![c] = "live"]
        /\ next' = [next EXCEPT ![c] = Null]
        /\ nalloc' = c
        /\ head' = [head EXCEPT ![q] = c]
    /\ qst' = [qst EXCEPT ![q] = "new"]
    /\ UNCHANGED <<data, init, ownv, rc, qdrops, prodv, consv, histv, ub, syncv>>

\* Split without Arc::clone: the two endpoints share one count.
SplitNoClone(q) ==
    /\ ~ub
    /\ qst[q] = "new"
    /\ qst' = [qst EXCEPT ![q] = "split"]
    /\ rc' = [rc EXCEPT ![q] = 1]
    /\ tail' = [tail EXCEPT ![q] = head[q]]
    /\ ppc' = [ppc EXCEPT ![q] = "idle"]
    /\ cpc' = [cpc EXCEPT ![q] = "idle"]
    /\ UNCHANGED <<heapv, ownv, head, qdrops, pnode, chead, cnext, cres, histv, ub, syncv>>

\* Split handing the producer a tail that was never set to the head.
SplitTailUnset(q) ==
    /\ ~ub
    /\ qst[q] = "new"
    /\ qst' = [qst EXCEPT ![q] = "split"]
    /\ rc' = [rc EXCEPT ![q] = 2]
    /\ ppc' = [ppc EXCEPT ![q] = "idle"]
    /\ cpc' = [cpc EXCEPT ![q] = "idle"]
    /\ UNCHANGED <<heapv, ownv, head, qdrops, tail, pnode, chead, cnext, cres, histv, ub, syncv>>

\* Queue::split(self): Arc::new + Arc::clone, tail = head.
Split(q) ==
    /\ ~ub
    /\ qst[q] = "new"
    /\ qst' = [qst EXCEPT ![q] = "split"]
    /\ rc' = [rc EXCEPT ![q] = 2]
    /\ tail' = [tail EXCEPT ![q] = head[q]]
    /\ ppc' = [ppc EXCEPT ![q] = "idle"]
    /\ cpc' = [cpc EXCEPT ![q] = "idle"]
    /\ UNCHANGED <<heapv, ownv, head, qdrops, pnode, chead, cnext, cres, histv, ub, syncv>>

\* The cells <Queue as Drop>::drop walks after the sentinel.
DropChain(q) == ChainFrom(next[head[q]], MaxCells + 1)

\* QueueDrop without drop_in_place: the cells are freed, no destructor runs.
QueueDropNoDestructor(q) ==
    LET h == head[q]
        ch == DropChain(q)
        all == <<h>> \o ch
    IN
    /\ heap' = [c \in Cells |->
                  IF \E i \in DOMAIN all : all[i] = c THEN "freed" ELSE heap[c]]
    /\ init' = [c \in Cells |->
                  IF \E i \in DOMAIN all : all[i] = c THEN FALSE ELSE init[c]]
    /\ dropCount' = dropCount
    /\ rel' = rel \ {all[i] : i \in DOMAIN all}
    /\ qdrops' = [qdrops EXCEPT ![q] = @ + 1]
    /\ qst' = [qst EXCEPT ![q] = "dropped"]
    /\ ub' = (\/ ub
              \/ \E i \in DOMAIN all : ~Live(all[i])
              \/ ~NoRepeat(all))

\* QueueDrop running drop_in_place on the sentinel's slot as well, whatever
\* payload bits a pop left there.
QueueDropSentinelToo(q) ==
    LET h == head[q]
        ch == DropChain(q)
        all == <<h>> \o ch
    IN
    /\ heap' = [c \in Cells |->
                  IF \E i \in DOMAIN all : all[i] = c THEN "freed" ELSE heap[c]]
    /\ init' = [c \in Cells |->
                  IF \E i \in DOMAIN all : all[i] = c THEN FALSE ELSE init[c]]
    /\ dropCount' = [p \in Payloads |-> dropCount[p] + CountData(all, p)]
    /\ rel' = rel \ {all[i] : i \in DOMAIN all}
    /\ qdrops' = [qdrops EXCEPT ![q] = @ + 1]
    /\ qst' = [qst EXCEPT ![q] = "dropped"]
    /\ ub' = (\/ ub
              \/ \E i \in DOMAIN all : ~Live(all[i])
              \/ ~NoRepeat(all))

\* <Queue as Drop>::drop: the sentinel is freed without a destructor, every
\* cell after it has its payload's destructor run and is freed.
QueueDrop(q) ==
    LET h == head[q]
        ch == DropChain(q)
        all == <<h>> \o ch
    IN
    /\ heap' = [c \in Cells |->
                  IF \E i \in DOMAIN all : all[i] = c THEN "freed" ELSE heap[c]]
    /\ init' = [c \in Cells |->
                  IF \E i \in DOMAIN all : all[i] = c THEN FALSE ELSE init[c]]
    /\ dropCount' = [p \in Payloads |-> dropCount[p] + CountData(ch, p)]
    /\ rel' = rel \ {all[i] : i \in DOMAIN all}
    /\ qdrops' = [qdrops EXCEPT ![q] = @ + 1]
    /\ qst' = [qst EXCEPT ![q] = "dropped"]
    /\ ub' = (\/ ub
              \/ \E i \in DOMAIN all : ~Live(all[i])
              \/ ~NoRepeat(all)
              \/ \E i \in DOMAIN ch : ~init[ch[i]])

\* Dropping one Arc<Queue>: the count goes down, the last one drops the Queue.
ArcDrop(q) ==
    /\ rc' = [rc EXCEPT ![q] = @ - 1]
    /\ IF rc[q] = 1
       THEN QueueDrop(q)
       ELSE UNCHANGED <<heap, init, dropCount, qdrops, qst, ub, rel>>

\* A Queue value that was never split goes out of scope.
DropUnsplit(q) ==
    /\ ~ub
    /\ qst[q] = "new"
    /\ QueueDrop(q)
    /\ UNCHANGED <<next, data, nalloc, nodes, held, made, head, rc, prodv, consv, histv, acq>>

\* The Producer goes out of scope (its field queue: Arc<Queue<T>> is dropped).
DropProducer(q) ==
    /\ ~ub
    /\ ppc[q] = "idle"
    /\ ppc' = [ppc EXCEPT ![q] = "dropped"]
    /\ ArcDrop(q)
    /\ UNCHANGED <<next, data, nalloc, nodes, held, made, head, tail, pnode, consv, histv, acq>>

\* The Consumer goes out of scope.
DropConsumer(q) ==
    /\ ~ub
    /\ cpc[q] = "idle"
    /\ cpc' = [cpc EXCEPT ![q] = "dropped"]
    /\ ArcDrop(q)
    /\ UNCHANGED <<next, data, nalloc, nodes, held, made, head, prodv, chead, cnext, cres, histv, acq>>

\* --------------------------------------------------------------- Producer

\* PushStore allocating a cell of its own for the link, as a queue that owns
\* its cells would.
PushStoreAllocates(q, n) ==
    /\ ~ub
    /\ ppc[q] = "idle"
    /\ n \in nodes
    /\ nodes' = nodes \ {n}
    /\ pnode' = [pnode EXCEPT ![q] = n]
    /\ next' = [next EXCEPT ![tail[q]] = n]
    /\ ub' = (ub \/ ~Live(tail[q]))
    /\ pushed' = [pushed EXCEPT ![q] = Append(@, data[n])]
    /\ rel' = (IF Releases(StoreOrdering) THEN rel \cup {n} ELSE rel \ {n})
    /\ ppc' = [ppc EXCEPT ![q] = "settail"]
    /\ IF nalloc < MaxCells
       THEN heap' = [heap EXCEPT ![nalloc + 1] = "live"] /\ nalloc' = nalloc + 1
       ELSE UNCHANGED <<heap, nalloc>>
    /\ UNCHANGED <<data, init, held, dropCount, made, queuev, tail, consv, popped, acq>>

\* PushStore linking the cell after the queue's head instead of after the
\* producer's tail.
PushStoreAtHead(q, n) ==
    /\ ~ub
    /\ ppc[q] = "idle"
    /\ n \in nodes
    /\ nodes' = nodes \ {n}
    /\ pnode' = [pnode EXCEPT ![q] = n]
    /\ next' = [next EXCEPT ![head[q]] = n]
    /\ ub' = (ub \/ ~Live(head[q]))
    /\ pushed' = [pushed EXCEPT ![q] = Append(@, data[n])]
    /\ rel' = (IF Releases(StoreOrdering) THEN rel \cup {n} ELSE rel \ {n})
    /\ ppc' = [ppc EXCEPT ![q] = "settail"]
    /\ UNCHANGED <<heap, data, init, nalloc, held, dropCount, made, queuev, tail, consv, popped, acq>>

\* PushStore without mem::forget(node): the caller's handle outlives the push.
PushStoreKeepsHandle(q, n) ==
    /\ ~ub
    /\ ppc[q] = "idle"
    /\ n \in nodes
    /\ nodes' = nodes
    /\ pnode' = [pnode EXCEPT ![q] = n]
    /\ next' = [next EXCEPT ![tail[q]] = n]
    /\ ub' = (ub \/ ~Live(tail[q]))
    /\ pushed' = [pushed EXCEPT ![q] = Append(@, data[n])]
    /\ rel' = (IF Releases(StoreOrdering) THEN rel \cup {n} ELSE rel \ {n})
    /\ ppc' = [ppc EXCEPT ![q] = "settail"]
    /\ UNCHANGED <<heap, data, init, nalloc, held, dropCount, made, queuev, tail, consv, popped, acq>>

\* Producer::push, lines 234-238: the handle is forgotten and the cell is
\* published by the release store to tail.next.
PushStore(q, n) ==
    /\ ~ub
    /\ ppc[q] = "idle"
    /\ n \in nodes
    /\ nodes' = nodes \ {n}
    /\ pnode' = [pnode EXCEPT ![q] = n]
    /\ next' = [next EXCEPT ![tail[q]] = n]
    /\ ub' = (ub \/ ~Live(tail[q]))
    /\ pushed' = [pushed EXCEPT ![q] = Append(@, data[n])]
    /\ rel' = (IF Releases(StoreOrdering) THEN rel \cup {n} ELSE rel \ {n})
    /\ ppc' = [ppc EXCEPT ![q] = "settail"]
    /\ UNCHANGED <<heap, data, init, nalloc, held, dropCount, made, queuev, tail, consv, popped, acq>>

\* PushSetTail without the assignment: tail keeps pointing at the old cell.
PushSetTailForgotten(q) ==
    /\ ~ub
    /\ ppc[q] = "settail"
    /\ pnode' = [pnode EXCEPT ![q] = Null]
    /\ ppc' = [ppc EXCEPT ![q] = "idle"]
    /\ UNCHANGED <<heapv, ownv, queuev, tail, consv, histv, ub, syncv>>

\* PushSetTail taking the queue's head for the new tail.
PushSetTailToHead(q) ==
    /\ ~ub
    /\ ppc[q] = "settail"
    /\ tail' = [tail EXCEPT ![q] = head[q]]
    /\ pnode' = [pnode EXCEPT ![q] = Null]
    /\ ppc' = [ppc EXCEPT ![q] = "idle"]
    /\ UNCHANGED <<heapv, ownv, queuev, consv, histv, ub, syncv>>

\* PushSetTail reading the old tail cell once more before it moves the tail.
PushSetTailReadsOld(q) ==
    /\ ~ub
    /\ ppc[q] = "settail"
    /\ ub' = (ub \/ ~Live(tail[q]))
    /\ tail' = [tail EXCEPT ![q] = pnode[q]]
    /\ pnode' = [pnode EXCEPT ![q] = Null]
    /\ ppc' = [ppc EXCEPT ![q] = "idle"]
    /\ UNCHANGED <<heapv, ownv, queuev, consv, histv, syncv>>

\* Producer::push, line 240: self.tail = node_ptr.
PushSetTail(q) ==
    /\ ~ub
    /\ ppc[q] = "settail"
    /\ tail' = [tail EXCEPT ![q] = pnode[q]]
    /\ pnode' = [pnode EXCEPT ![q] = Null]
    /\ ppc' = [ppc EXCEPT ![q] = "idle"]
    /\ UNCHANGED <<heapv, ownv, queuev, consv, histv, ub, syncv>>

\* --------------------------------------------------------------- Consumer

\* PopLoad waiting for a push in progress to finish before it reads the list.
PopLoadWaits(q) ==
    /\ ~ub
    /\ cpc[q] = "idle"
    /\ ppc[q] # "settail"
    /\ LET h == head[q]
           n == next[h]
       IN
        /\ ub' = (ub \/ ~Live(h))
        /\ IF n = Null
           THEN /\ cres' = [cres EXCEPT ![q] = "none"]
                /\ UNCHANGED <<cpc, chead, cnext, acq>>
           ELSE /\ chead' = [chead EXCEPT ![q] = h]
                /\ cnext' = [cnext EXCEPT ![q] = n]
                /\ cpc' = [cpc EXCEPT ![q] = "copy"]
                /\ acq' = [acq EXCEPT ![q] = Acquires(LoadOrdering) /\ n \in rel]
                /\ UNCHANGED cres
    /\ UNCHANGED <<heapv, ownv, queuev, prodv, histv, rel>>

\* PopLoad without the test for null: whatever head.next holds is taken for a
\* cell to copy from.
PopLoadUnchecked(q) ==
    /\ ~ub
    /\ cpc[q] = "idle"
    /\ LET h == head[q]
           n == next[h]
       IN
        /\ ub' = (ub \/ ~Live(h) \/ n = Null)
        /\ chead' = [chead EXCEPT ![q] = h]
        /\ cnext' = [cnext EXCEPT ![q] = n]
        /\ cpc' = [cpc EXCEPT ![q] = "copy"]
        /\ acq' = [acq EXCEPT ![q] = Acquires(LoadOrdering) /\ n \in rel]
    /\ UNCHANGED <<heapv, ownv, queuev, prodv, cres, histv, rel>>

\* Consumer::pop, lines 202-205 and 214: head is read, head.next is loaded
\* (acquire); a null next returns None.
PopLoad(q) ==
    /\ ~ub
    /\ cpc[q] = "idle"
    /\ LET h == head[q]
           n == next[h]
       IN
        /\ ub' = (ub \/ ~Live(h))
        /\ IF n = Null
           THEN /\ cres' = [cres EXCEPT ![q] = "none"]
                /\ UNCHANGED <<cpc, chead, cnext, acq>>
           ELSE /\ chead' = [chead EXCEPT ![q] = h]
                /\ cnext' = [cnext EXCEPT ![q] = n]
                /\ cpc' = [cpc EXCEPT ![q] = "copy"]
                /\ acq' = [acq EXCEPT ![q] = Acquires(LoadOrdering) /\ n \in rel]
                /\ UNCHANGED cres
    /\ UNCHANGED <<heapv, ownv, queuev, prodv, histv, rel>>

\* PopCopy with the arguments of copy_nonoverlapping exchanged: head's slot is
\* copied into next.
PopCopySwapped(q) ==
    /\ ~ub
    /\ cpc[q] = "copy"
    /\ data' = [data EXCEPT ![cnext[q]] = data[chead[q]]]
    /\ init' = [init EXCEPT ![cnext[q]] = init[chead[q]], ![chead[q]] = FALSE]
    /\ ub' = (ub \/ ~Live(chead[q]) \/ ~Live(cnext[q]) \/ ~acq[q])
    /\ rel' = rel \ {cnext[q]}
    /\ acq' = [acq EXCEPT ![q] = FALSE]
    /\ cpc' = [cpc EXCEPT ![q] = "scrub"]
    /\ UNCHANGED <<heap, next, nalloc, ownv, queuev, prodv, chead, cnext, cres, histv>>

\* PopCopy without the copy: what the sentinel's slot holds goes out with it.
PopCopySkipped(q) ==
    /\ ~ub
    /\ cpc[q] = "copy"
    /\ ub' = (ub \/ ~Live(chead[q]) \/ ~Live(cnext[q]) \/ ~acq[q])
    /\ rel' = rel \ {cnext[q]}
    /\ acq' = [acq EXCEPT ![q] = FALSE]
    /\ cpc' = [cpc EXCEPT ![q] = "scrub"]
    /\ UNCHANGED <<heapv, ownv, queuev, prodv, chead, cnext, cres, histv>>

\* Consumer::pop, line 206: the payload is copied from next into head.
PopCopy(q) ==
    /\ ~ub
    /\ cpc[q] = "copy"
    /\ data' = [data EXCEPT ![chead[q]] = data[cnext[q]]]
    /\ init' = [init EXCEPT ![chead[q]] = init[cnext[q]], ![cnext[q]] = FALSE]
    /\ ub' = (ub \/ ~Live(chead[q]) \/ ~Live(cnext[q]) \/ ~acq[q])
    /\ rel' = rel \ {cnext[q]}
    /\ acq' = [acq EXCEPT ![q] = FALSE]
    /\ cpc' = [cpc EXCEPT ![q] = "scrub"]
    /\ UNCHANGED <<heap, next, nalloc, ownv, queuev, prodv, chead, cnext, cres, histv>>

\* PopScrub without the store: the cell returned keeps its link.
PopScrubSkipped(q) ==
    /\ ~ub
    /\ cpc[q] = "scrub"
    /\ cpc' = [cpc EXCEPT ![q] = "sethead"]
    /\ UNCHANGED <<heapv, ownv, queuev, prodv, chead, cnext, cres, histv, ub, syncv>>

\* PopScrub storing null to the link of the wrong one of pop's two cells.
PopScrubNext(q) ==
    /\ ~ub
    /\ cpc[q] = "scrub"
    /\ next' = [next EXCEPT ![cnext[q]] = Null]
    /\ ub' = (ub \/ ~Live(cnext[q]))
    /\ cpc' = [cpc EXCEPT ![q] = "sethead"]
    /\ UNCHANGED <<heap, data, init, nalloc, ownv, queuev, prodv, chead, cnext, cres, histv, syncv>>

\* Consumer::pop, line 207: head.next is set to null (relaxed).
PopScrub(q) ==
    /\ ~ub
    /\ cpc[q] = "scrub"
    /\ next' = [next EXCEPT ![chead[q]] = Null]
    /\ ub' = (ub \/ ~Live(chead[q]))
    /\ cpc' = [cpc EXCEPT ![q] = "sethead"]
    /\ UNCHANGED <<heap, data, init, nalloc, ownv, queuev, prodv, chead, cnext, cres, histv, syncv>>

\* PopReturn handing out the cell that was dequeued, which is also the new
\* head, instead of the old head.
PopReturnDequeued(q) ==
    /\ ~ub
    /\ cpc[q] = "sethead"
    /\ head' = [head EXCEPT ![q] = cnext[q]]
    /\ nodes' = nodes \cup {cnext[q]}
    /\ popped' = [popped EXCEPT ![q] = Append(@, data[cnext[q]])]
    /\ cres' = [cres EXCEPT ![q] = "some"]
    /\ chead' = [chead EXCEPT ![q] = Null]
    /\ cnext' = [cnext EXCEPT ![q] = Null]
    /\ cpc' = [cpc EXCEPT ![q] = "idle"]
    /\ UNCHANGED <<heapv, held, dropCount, made, qst, rc, qdrops, prodv, pushed, ub, syncv>>

\* PopReturn without queue.head = next: the old head is returned and stays the
\* head.
PopReturnHeadKept(q) ==
    /\ ~ub
    /\ cpc[q] = "sethead"
    /\ nodes' = nodes \cup {chead[q]}
    /\ popped' = [popped EXCEPT ![q] = Append(@, data[chead[q]])]
    /\ cres' = [cres EXCEPT ![q] = "some"]
    /\ chead' = [chead EXCEPT ![q] = Null]
    /\ cnext' = [cnext EXCEPT ![q] = Null]
    /\ cpc' = [cpc EXCEPT ![q] = "idle"]
    /\ UNCHANGED <<heapv, held, dropCount, made, queuev, prodv, pushed, ub, syncv>>

\* Consumer::pop, lines 209-211: queue.head = next, the old head is returned
\* wrapped in a Node.
PopReturn(q) ==
    /\ ~ub
    /\ cpc[q] = "sethead"
    /\ head' = [head EXCEPT ![q] = cnext[q]]
    /\ nodes' = nodes \cup {chead[q]}
    /\ popped' = [popped EXCEPT ![q] = Append(@, data[chead[q]])]
    /\ cres' = [cres EXCEPT ![q] = "some"]
    /\ chead' = [chead EXCEPT ![q] = Null]
    /\ cnext' = [cnext EXCEPT ![q] = Null]
    /\ cpc' = [cpc EXCEPT ![q] = "idle"]
    /\ UNCHANGED <<heapv, held, dropCount, made, qst, rc, qdrops, prodv, pushed, ub, syncv>>

\* ------------------------------------------------------- the general client

\* One queue, its producer and its consumer running concurrently with each
\* other and with the callers that make, reuse, unwrap and drop nodes: any
\* operation of the API in any order, each payload a value of its own.  The
\* queue is made first, as in every test and example of the crate (a node
\* made before it would differ only in its address).
Next ==
    \/ qst["A"] # "none" /\ NodeNew(nalloc + 1) /\ UNCHANGED client
    \/ \E c \in Cells : NodeIntoInner(c) /\ UNCHANGED client
    \/ \E p \in Payloads : ValueDrop(p) /\ UNCHANGED client
    \/ \E c \in Cells : NodeDrop(c) /\ UNCHANGED client
    \/ QueueNew("A") /\ UNCHANGED client
    \/ Split("A") /\ UNCHANGED client
    \/ DropUnsplit("A") /\ UNCHANGED client
    \/ DropProducer("A") /\ UNCHANGED client
    \/ DropConsumer("A") /\ UNCHANGED client
    \/ \E n \in Cells : Len(pushed["A"]) < MaxPush /\ PushStore("A", n) /\ UNCHANGED client
    \/ PushSetTail("A") /\ UNCHANGED client
    \/ PopLoad("A") /\ UNCHANGED client
    \/ PopCopy("A") /\ UNCHANGED client
    \/ PopScrub("A") /\ UNCHANGED client
    \/ PopReturn("A") /\ UNCHANGED client

Spec == Init /\ [][Next]_vars

\* ------------------------------------------------------------ two queues

TotalPushed == Len(pushed["A"]) + Len(pushed["B"])

\* tests::multiple_queues and the crate's second example, with the four
\* endpoints running concurrently: both queues are made and split first, then
\* nodes are made and any node a caller holds, made by Node::new or returned
\* by a pop of either queue, is pushed onto either queue.
NextTwo ==
    \/ (\A q \in Queues : qst[q] = "split") /\ NodeNew(nalloc + 1) /\ UNCHANGED client
    \/ \E q \in Queues : QueueNew(q) /\ UNCHANGED client
    \/ \E q \in Queues : Split(q) /\ UNCHANGED client
    \/ \E q \in Queues : \E n \in Cells :
          TotalPushed < MaxMoves /\ PushStore(q, n) /\ UNCHANGED client
    \/ \E q \in Queues : PushSetTail(q) /\ UNCHANGED client
    \/ \E q \in Queues : PopLoad(q) /\ UNCHANGED client
    \/ \E q \in Queues : PopCopy(q) /\ UNCHANGED client
    \/ \E q \in Queues : PopScrub(q) /\ UNCHANGED client
    \/ \E q \in Queues : PopReturn(q) /\ UNCHANGED client

SpecTwo == Init /\ [][NextTwo]_vars

\* --------------------------------------------------- tests::multithreaded

\* let (mut producer, mut consumer) = Queue::new().split(); both threads are
\* spawned.
MTQueueNew == QueueNew("A") /\ UNCHANGED client

MTSplit ==
    /\ Split("A")
    /\ t1pc' = "new"
    /\ t2pc' = "pop"
    /\ UNCHANGED <<iter, counter, t1node, t2node>>

\* thread1: Node::new(false) MTItems times, then Node::new(true).
T1New ==
    /\ t1pc = "new"
    /\ NodeNew(IF iter < MTItems THEN ValFalse ELSE ValTrue)
    /\ t1node' = nalloc + 1
    /\ t1pc' = "push"
    /\ UNCHANGED <<t2pc, iter, counter, t2node>>

\* thread1: producer.push(node), up to the release store.
T1Push ==
    /\ t1pc = "push"
    /\ PushStore("A", t1node)
    /\ t1node' = Null
    /\ t1pc' = "settail"
    /\ UNCHANGED <<t2pc, iter, counter, t2node>>

\* thread1: the end of push and of one turn of the loop.
T1SetTail ==
    /\ t1pc = "settail"
    /\ PushSetTail("A")
    /\ iter' = iter + 1
    /\ t1pc' = IF iter < MTItems THEN "new" ELSE "exit"
    /\ UNCHANGED <<t2pc, counter, t1node, t2node>>

\* thread1: the closure ends, the producer is dropped.
T1Exit ==
    /\ t1pc = "exit"
    /\ DropProducer("A")
    /\ t1pc' = "done"
    /\ UNCHANGED <<t2pc, iter, counter, t1node, t2node>>

\* thread2: consumer.pop(): a None goes round the loop again.
T2Load == t2pc = "pop" /\ PopLoad("A") /\ UNCHANGED client

T2Copy == t2pc = "pop" /\ PopCopy("A") /\ UNCHANGED client

T2Scrub == t2pc = "pop" /\ PopScrub("A") /\ UNCHANGED client

\* thread2: if let Some(node) = consumer.pop().
T2Return ==
    /\ t2pc = "pop"
    /\ PopReturn("A")
    /\ t2node' = chead["A"]
    /\ t2pc' = "check"
    /\ UNCHANGED <<t1pc, iter, counter, t1node>>

\* thread2: if *node { break } else { counter += 1 }; node goes out of scope.
T2Check ==
    /\ t2pc = "check"
    /\ NodeDrop(t2node)
    /\ t2node' = Null
    /\ IF data[t2node] = ValTrue
       THEN t2pc' = "exit" /\ UNCHANGED counter
       ELSE t2pc' = "pop" /\ counter' = counter + 1
    /\ UNCHANGED <<t1pc, iter, t1node>>

\* thread2: the closure ends, the consumer is dropped.
T2Exit ==
    /\ t2pc = "exit"
    /\ DropConsumer("A")
    /\ t2pc' = "done"
    /\ UNCHANGED <<t1pc, iter, counter, t1node, t2node>>

MainNext == MTQueueNew \/ MTSplit

T1Next == T1New \/ T1Push \/ T1SetTail \/ T1Exit

T2Next == T2Load \/ T2Copy \/ T2Scrub \/ T2Return \/ T2Check \/ T2Exit

NextMT == MainNext \/ T1Next \/ T2Next

\* Each thread is scheduled again and again until it ends (the test joins both).
SpecMT ==
    /\ Init
    /\ [][NextMT]_vars
    /\ WF_vars(MainNext)
    /\ WF_vars(T1Next)
    /\ WF_vars(T2Next)

\* ================================================================= claims

\* No push and no pop is in progress on any queue.
Quiet == \A q \in Queues : ppc[q] # "settail" /\ cpc[q] \in {"none", "idle", "dropped"}

DataSeq(s) == [i \in DOMAIN s |-> data[s[i]]]

IsPrefix(s, t) == Len(s) <= Len(t) /\ \A i \in 1..Len(s) : s[i] = t[i]

\* The payloads pushed onto q and not yet returned by a pop, in push order.
Unpopped(q) == SubSeq(pushed[q], Len(popped[q]) + 1, Len(pushed[q]))

\* The payloads the list of q holds: those of the cells after the sentinel;
\* between pop's scrubbing store and its return, the payload pop is about to
\* return and those after the cell that becomes the sentinel.
InQueue(q) ==
    IF cpc[q] = "sethead"
    THEN <<data[chead[q]]>> \o DataSeq(ChainFrom(next[cnext[q]], MaxCells))
    ELSE DataSeq(ChainFrom(next[head[q]], MaxCells))

\* C1: in every interleaving of the steps of push and pop on one queue, the
\* payloads returned by successful pops are a prefix of the payloads passed to
\* push, in push order, and the payloads pushed and not yet returned are
\* exactly those the list holds, in push order: none is duplicated, reordered
\* or lost.
C1_Conservation ==
    \A q \in Queues :
        /\ IsPrefix(popped[q], pushed[q])
        /\ qst[q] = "split" => InQueue(q) = Unpopped(q)

\* C1: three different payloads were pushed and all three were returned by
\* pops, in push order.
C1_Witness ==
    /\ Len(pushed["A"]) = 3
    /\ popped["A"] = pushed["A"]
    /\ \A i, j \in 1..3 : i # j => pushed["A"][i] # pushed["A"][j]

\* The branch of pop that returns None can be taken.
PopNone(q) == PopLoad(q) /\ cpc'[q] = "idle" /\ cres'[q] = "none"

\* The branch of pop that goes on to return Some can be taken.
PopSome(q) == PopLoad(q) /\ cpc'[q] = "copy"

\* C2: whenever a pop starts, it returns None exactly when every pushed
\* payload has already been popped, and otherwise it takes the cell whose
\* payload is the oldest one not yet popped; so after k pushes the next k pops
\* return the k payloads in push order and the one after them returns None.
C2_FifoThenEmpty ==
    \A q \in Queues :
        (qst[q] = "split" /\ cpc[q] = "idle") =>
            /\ (ENABLED PopNone(q)) <=> (Len(popped[q]) = Len(pushed[q]))
            /\ (ENABLED PopSome(q)) <=> (Len(popped[q]) < Len(pushed[q]))
            /\ Len(popped[q]) < Len(pushed[q]) =>
                   data[next[head[q]]] = pushed[q][Len(popped[q]) + 1]

\* C2: three pushes have completed, three pops returned the payloads in push
\* order and the fourth pop returned None.
C2_Witness ==
    /\ ppc["A"] = "idle"
    /\ Len(pushed["A"]) = 3
    /\ popped["A"] = pushed["A"]
    /\ cres["A"] = "none"

SeqSet(s) == {s[i] : i \in DOMAIN s}

\* The cells queue q owns: its sentinel and the cells linked after it, and
\* during a pop the two cells pop works on and the cells linked after them.
Owned(q) ==
    IF qst[q] \in {"new", "split"}
    THEN SeqSet(ChainFrom(head[q], MaxCells + 1))
         \cup (IF cpc[q] \in {"copy", "scrub", "sethead"}
               THEN {chead[q]} \cup SeqSet(ChainFrom(cnext[q], MaxCells + 1))
               ELSE {})
    ELSE {}

\* A Node handle a caller owns is fit to be pushed on any queue: its cell is
\* allocated, holds a payload, has a null link and belongs to no queue.
Pushable(c) ==
    /\ Live(c)
    /\ init[c]
    /\ next[c] = Null
    /\ \A q \in Queues : c \notin Owned(q)

\* C3: with two queues running concurrently and nodes passed from pop to push
\* of the same or of the other queue, every node a caller holds (made by Node::new or returned
\* by pop) is fit to be pushed, each queue returns the payloads pushed onto
\* it unchanged and in order, and is empty exactly when all of them have been
\* returned; once every node popped from A was pushed onto B and B was
\* drained, B has returned as many nodes as were pushed onto A, with A's
\* payloads, and both queues are empty.
C3_NodeReuse ==
    /\ ~ub
    /\ \A c \in nodes : Pushable(c)
    /\ \A q \in Queues :
        /\ IsPrefix(popped[q], pushed[q])
        /\ (qst[q] = "split" /\ cpc[q] = "idle") =>
               ((next[head[q]] = Null) <=> (popped[q] = pushed[q]))
    /\ ( /\ Quiet
         /\ \A q \in Queues : qst[q] = "split"
         /\ popped["A"] = pushed["A"]
         /\ pushed["B"] = popped["A"]
         /\ popped["B"] = pushed["B"] )
       => /\ Len(popped["B"]) = Len(pushed["A"])
          /\ popped["B"] = pushed["A"]
          /\ next[head["A"]] = Null
          /\ next[head["B"]] = Null

\* C3: two nodes were pushed onto A, popped, pushed onto B and popped from B;
\* no other node was ever made, so the nodes pushed onto B are those pop
\* returned.
C3_Witness ==
    /\ Quiet
    /\ nalloc = 4
    /\ Cardinality(made) = 2
    /\ Len(pushed["A"]) = 2
    /\ popped["A"] = pushed["A"]
    /\ pushed["B"] = popped["A"]
    /\ popped["B"] = pushed["B"]
    /\ next[head["A"]] = Null
    /\ next[head["B"]] = Null

\* Where payload p is: in the slot of an allocated cell that holds a T, in a
\* caller's hands after into_inner, or destroyed.
Places(p) ==
    Cardinality({c \in Cells : heap[c] = "live" /\ init[c] /\ data[c] = p})
        + held[p] + dropCount[p]

\* No caller holds a Node or an extracted payload.
NothingHeld == nodes = {} /\ \A p \in Payloads : held[p] = 0

\* No queue that is still alive holds an item or is in the middle of a pop.
NothingQueued ==
    \A q \in Queues :
        qst[q] \in {"new", "split"} =>
            /\ next[head[q]] = Null
            /\ cpc[q] \in {"none", "idle", "dropped"}

\* Every endpoint of every queue is gone (or the queue was never made).
QueuesGone == \A q \in Queues : qst[q] \in {"none", "dropped"}

\* C4: over any sequence of push, pop, Node drop, into_inner and endpoint
\* drops, every payload put into a Node is at every moment in exactly one
\* place (an initialized slot, a caller's hands, or destroyed once) and is
\* never destroyed twice; once no handle, no extracted value and no queued
\* item is left (the queue still alive or not), and so once every handle and
\* both endpoints are gone, every payload's destructor has run exactly once.
C4_OneDestructor ==
    \A p \in Payloads :
        /\ dropCount[p] <= 1
        /\ Places(p) = (IF p \in made THEN 1 ELSE 0)
        /\ (p \in made /\ NothingHeld /\ NothingQueued) => dropCount[p] = 1

\* C4: three payloads were made, every handle and both endpoints are gone,
\* and each payload was destroyed once.
C4_Witness ==
    /\ Cardinality(made) = 3
    /\ NothingHeld
    /\ qst["A"] = "dropped"
    /\ ppc["A"] = "dropped"
    /\ cres["A"] = "some"
    /\ \A p \in made : dropCount[p] = 1

\* C5: no access ever reaches a cell that is not allocated (no use after
\* free, no second free); every allocated cell is owned by exactly one Node
\* handle or one live queue, so none is leaked; the sentinel and the cells
\* linked after it stay allocated while their queue is alive; once every
\* handle and every endpoint is gone, every cell ever allocated is freed.
C5_NoLeakNoDoubleFree ==
    /\ ~ub
    /\ \A c \in nodes : Live(c) /\ \A q \in Queues : c \notin Owned(q)
    /\ \A q \in Queues : \A c \in Owned(q) : Live(c)
    /\ Owned("A") \cap Owned("B") = {}
    /\ \A c \in Cells :
          heap[c] = "live" => (c \in nodes \/ \E q \in Queues : c \in Owned(q))
    /\ (nodes = {} /\ QueuesGone) => \A c \in 1..nalloc : heap[c] = "freed"

\* C5: a sentinel and three nodes were allocated, nodes went through the
\* queue, everything was dropped and all four cells are freed.
C5_Witness ==
    /\ nalloc = 4
    /\ nodes = {}
    /\ qst["A"] = "dropped"
    /\ ppc["A"] = "dropped"
    /\ Len(popped["A"]) >= 1
    /\ \A c \in Cells : heap[c] = "freed"

Alive(pc) == pc \notin {"none", "dropped"}

\* C6: a split queue's count is the number of its endpoints still alive (2
\* after split); the Queue destructor has run at most once, and has run
\* exactly when both endpoints are dropped; while an endpoint is alive the
\* sentinel and the linked cells are allocated.
C6_SharedLifetime ==
    \A q \in Queues :
        /\ qdrops[q] <= 1
        /\ ppc[q] # "none" =>
            /\ rc[q] = (IF Alive(ppc[q]) THEN 1 ELSE 0) + (IF Alive(cpc[q]) THEN 1 ELSE 0)
            /\ (qdrops[q] = 1) <=> (ppc[q] = "dropped" /\ cpc[q] = "dropped")
            /\ (Alive(ppc[q]) \/ Alive(cpc[q])) =>
                /\ qst[q] = "split"
                /\ Live(head[q])
                /\ \A c \in SeqSet(ChainFrom(head[q], MaxCells + 1)) : Live(c)

\* C6: the consumer was dropped first, the producer is still pushing, and
\* the three cells pushed are still linked and allocated.
C6_Witness ==
    /\ cpc["A"] = "dropped"
    /\ ppc["A"] = "settail"
    /\ rc["A"] = 1
    /\ qdrops["A"] = 0
    /\ Len(ChainFrom(next[head["A"]], MaxCells)) = 3

\* C7: the step in which the destructor of a split queue runs frees the
\* sentinel and the m cells linked after it, and runs the destructor once on
\* each of the m payloads pushed and not popped and on nothing else (not on
\* whatever a pop left in the sentinel's slot).
C7_AbandonedItems ==
    [][\A q \in Queues :
        (qdrops'[q] = qdrops[q] + 1 /\ qst[q] = "split") =>
            LET ab == Unpopped(q)
                ch == ChainFrom(next[head[q]], MaxCells + 1)
            IN
            /\ Len(ch) = Len(ab)
            /\ \A p \in Payloads :
                  dropCount'[p] = dropCount[p] + Cardinality({i \in DOMAIN ab : ab[i] = p})
            /\ heap'[head[q]] = "freed"
            /\ \A c \in SeqSet(ch) : heap[c] = "live" /\ heap'[c] = "freed"
            /\ ~ub'
      ]_vars

\* C7: the queue was torn down with two of three pushed items not popped
\* (the sentinel's slot still held the bits of the popped payload), and the
\* destructor ran once on each of the two.
C7_Witness ==
    /\ qdrops["A"] = 1
    /\ Len(pushed["A"]) = 3
    /\ Len(popped["A"]) = 1
    /\ \A i \in 2..3 : dropCount[pushed["A"][i]] = 1

\* C8: with both threads of tests::multithreaded scheduled fairly, the
\* consumer leaves its loop only on the payload true and has then counted
\* exactly MTItems payloads false, and eventually both threads have ended.
C8_MultithreadedEnds ==
    /\ [](t2pc \in {"exit", "done"} => counter = MTItems)
    /\ <>(t1pc = "done" /\ t2pc = "done")

\* C8: both threads have ended, the consumer counted MTItems payloads false
\* and the queue was torn down.
C8_Witness ==
    /\ t1pc = "done"
    /\ t2pc = "done"
    /\ counter = MTItems
    /\ MTItems >= 2
    /\ qdrops["A"] = 1

\* C9: a push is the two steps idle -> settail -> idle and a pop at most the
\* four steps idle -> copy -> scrub -> sethead -> idle (one step when it
\* returns None), whatever the length of the list; and at each of these
\* positions the step that moves on is enabled whatever the other thread is
\* doing: no step waits or goes back.
C9_WaitFree ==
    /\ [](\A q \in Queues :
            /\ ppc[q] = "idle" => \A n \in nodes : ENABLED (PushStore(q, n) /\ ppc'[q] = "settail")
            /\ ppc[q] = "settail" => ENABLED (PushSetTail(q) /\ ppc'[q] = "idle")
            /\ cpc[q] = "idle" => ENABLED (PopLoad(q) /\ cpc'[q] \in {"idle", "copy"})
            /\ cpc[q] = "copy" => ENABLED (PopCopy(q) /\ cpc'[q] = "scrub")
            /\ cpc[q] = "scrub" => ENABLED (PopScrub(q) /\ cpc'[q] = "sethead")
            /\ cpc[q] = "sethead" => ENABLED (PopReturn(q) /\ cpc'[q] = "idle"))
    /\ [][\A q \in Queues :
            /\ ppc'[q] # ppc[q] =>
                  <<ppc[q], ppc'[q]>> \in {<<"none", "idle">>, <<"idle", "settail">>,
                                          <<"settail", "idle">>, <<"idle", "dropped">>}
            /\ cpc'[q] # cpc[q] =>
                  <<cpc[q], cpc'[q]>> \in {<<"none", "idle">>, <<"idle", "copy">>,
                                          <<"copy", "scrub">>, <<"scrub", "sethead">>,
                                          <<"sethead", "idle">>, <<"idle", "dropped">>}
      ]_vars

\* C9: a push and a pop are both in progress on a list of three cells.
C9_Witness ==
    /\ ppc["A"] = "settail"
    /\ cpc["A"] = "scrub"
    /\ Len(pushed["A"]) = 3
    /\ Len(popped["A"]) = 0

\* A step of a push or of a pop on q (a pop that returns None twice in a row
\* changes nothing at all).
PushPopStep(q) ==
    \/ <<ppc[q], ppc'[q]>> \in {<<"idle", "settail">>, <<"settail", "idle">>}
    \/ <<cpc[q], cpc'[q]>> \in {<<"idle", "copy">>, <<"copy", "scrub">>,
                                <<"scrub", "sethead">>, <<"sethead", "idle">>}
    \/ cres'[q] # cres[q]

\* C10: no step of a push or of a pop changes which cells are allocated; a
\* cell becomes allocated only in a step of Node::new or Queue::new and stops
\* being allocated only in a step of Node drop, Node::into_inner or the Queue
\* destructor.
C10_NoAllocInPushPop ==
    [][/\ \A q \in Queues : PushPopStep(q) => (heap' = heap /\ nalloc' = nalloc)
       /\ heap' # heap =>
            \/ /\ nalloc' = nalloc + 1
               /\ heap' = [heap EXCEPT ![nalloc + 1] = "live"]
               /\ \/ made' # made /\ nodes' = nodes \cup {nalloc + 1}
                  \/ \E q \in Queues : qst[q] = "none" /\ qst'[q] = "new"
            \/ \E c \in nodes :
                  /\ nodes' = nodes \ {c}
                  /\ heap' = [heap EXCEPT ![c] = "freed"]
                  /\ nalloc' = nalloc
                  /\ (dropCount' # dropCount \/ held' # held)
            \/ \E q \in Queues : qdrops'[q] = qdrops[q] + 1 /\ nalloc' = nalloc
      ]_vars

\* C10: two nodes were pushed and popped, a further pop returned None, and
\* the cells allocated are still the sentinel's and the two nodes'.
C10_Witness ==
    /\ nalloc = 3
    /\ \A c \in 1..3 : heap[c] = "live"
    /\ Len(pushed["A"]) = 2
    /\ Len(popped["A"]) = 2
    /\ cres["A"] = "none"

\* A step of a pop of q that finds the list empty, other than a repeated None
\* (which changes nothing at all).
EmptyPopStep(q) ==
    /\ qst[q] = "split"
    /\ cpc[q] = "idle"
    /\ next[head[q]] = Null
    /\ (cpc'[q] \notin {"idle", "dropped"} \/ cres'[q] # cres[q])

\* C11: a pop that finds the list empty returns None and changes nothing
\* else: head, the sentinel's link, the producer's tail, the cells allocated
\* and every other part of the state stay as they were; on an empty list the
\* None branch is the only one a pop can take, however many times it was taken
\* before; and once a pop has returned None, a pop that starts after a later
\* push takes the cell carrying the pushed payload.
C11_EmptyPop ==
    /\ [](\A q \in Queues :
            (qst[q] = "split" /\ cpc[q] = "idle" /\ next[head[q]] = Null) =>
                (ENABLED PopNone(q)) /\ ~(ENABLED PopSome(q)))
    /\ [][\A q \in Queues :
            EmptyPopStep(q) =>
                /\ cres'[q] = "none"
                /\ cpc'[q] = "idle"
                /\ head'[q] = head[q]
                /\ next'[head[q]] = Null
                /\ tail'[q] = tail[q]
                /\ UNCHANGED <<heapv, ownv, queuev, prodv, histv, ub, syncv>>
      ]_vars
    /\ [](\A q \in Queues :
            (qst[q] = "split" /\ cpc[q] = "idle" /\ cres[q] = "none"
                /\ Len(popped[q]) < Len(pushed[q])) =>
                /\ ENABLED PopSome(q)
                /\ init[next[head[q]]]
                /\ data[next[head[q]]] = pushed[q][Len(popped[q]) + 1])

\* C11: every pop so far found the fresh queue empty and returned None, and a
\* push made afterwards has completed: its cell is linked after the sentinel.
C11_Witness ==
    /\ cres["A"] = "none"
    /\ cpc["A"] = "idle"
    /\ ppc["A"] = "idle"
    /\ Len(pushed["A"]) = 1
    /\ popped["A"] = <<>>
    /\ next[head["A"]] # Null
    /\ nalloc = 2

\* The cells of q's list in order, the sentinel first; between pop's
\* scrubbing store and its return the old head is cut off from the cells it
\* still leads.
LCells(q) ==
    IF cpc[q] = "sethead"
    THEN <<chead[q]>> \o ChainFrom(cnext[q], MaxCells + 1)
    ELSE ChainFrom(head[q], MaxCells + 1)

PushStartStep(q) == ppc[q] = "idle" /\ ppc'[q] = "settail"

PopStartStep(q) == cpc[q] = "idle" /\ cpc'[q] = "copy"

PopReturnStep(q) == cpc[q] = "sethead" /\ cpc'[q] = "idle"

\* C12: a push appends the cell it is given, carrying the pushed payload, to
\* the end of the list; a pop that succeeds works on the first two cells of
\* the list, the head sentinel and the cell after it, which carries the oldest
\* payload not yet popped; it returns the cell that was the sentinel, now
\* holding that payload, and the cell after it becomes the head with nothing
\* in its slot; no other step changes the list.  The two cells differ, so the
\* payload comes back in another cell than the one it was pushed in.
C12_CellRotation ==
    /\ [](\A q \in Queues :
            cpc[q] \in {"copy", "scrub", "sethead"} =>
                /\ head[q] = chead[q]
                /\ cnext[q] # chead[q]
                /\ NoRepeat(LCells(q))
                /\ LCells(q)[1] = chead[q]
                /\ LCells(q)[2] = cnext[q])
    /\ [][\A q \in Queues :
            (qst[q] = "split" /\ qst'[q] = "split") =>
                CASE PushStartStep(q) ->
                        /\ pnode'[q] \in nodes \ nodes'
                        /\ LCells(q)' = Append(LCells(q), pnode'[q])
                        /\ pushed'[q] = Append(pushed[q], data[pnode'[q]])
                  [] PopStartStep(q) ->
                        /\ chead'[q] = head[q]
                        /\ cnext'[q] = next[head[q]]
                        /\ data[cnext'[q]] = pushed[q][Len(popped[q]) + 1]
                  [] PopReturnStep(q) ->
                        /\ chead[q] \notin nodes
                        /\ nodes' = nodes \cup {chead[q]}
                        /\ head'[q] = cnext[q]
                        /\ LCells(q)' = Tail(LCells(q))
                        /\ init[chead[q]] /\ ~init[cnext[q]]
                        /\ data[chead[q]] = pushed[q][Len(popped[q]) + 1]
                        /\ popped'[q] = Append(popped[q], data[chead[q]])
                  [] OTHER -> LCells(q)' = LCells(q)
      ]_vars

\* C12: the payload made in cell 2 was pushed in cell 2 and came back in
\* cell 1, the sentinel Queue::new allocated; cell 2 is the head now.
C12_Witness ==
    /\ cres["A"] = "some"
    /\ popped["A"] = <<2>>
    /\ 1 \in nodes
    /\ data[1] = 2 /\ init[1]
    /\ head["A"] = 2 /\ ~init[2]

\* C13: whenever the producer of a split queue is between two pushes, its
\* tail is the last cell of the queue's list, that cell is allocated and its
\* link is null, whatever step of a pop the consumer is at; when the list holds
\* no item the tail is the head sentinel.
C13_TailAtRest ==
    \A q \in Queues :
        (qst[q] = "split" /\ ppc[q] = "idle") =>
            /\ Live(tail[q])
            /\ next[tail[q]] = Null
            /\ tail[q] = LCells(q)[Len(LCells(q))]
            /\ (cpc[q] = "idle" /\ popped[q] = pushed[q]) => tail[q] = head[q]

\* C13: three pushes have completed and the second pop is between its copy
\* and its scrubbing store; the tail is the cell pushed last.
C13_Witness ==
    /\ ppc["A"] = "idle"
    /\ cpc["A"] = "scrub"
    /\ Len(pushed["A"]) = 3
    /\ Len(popped["A"]) = 1
    /\ tail["A"] # head["A"]
    /\ next[next[head["A"]]] = tail["A"]
    /\ next[tail["A"]] = Null

\* C14: while no pop is in progress on a queue that is alive, its head is an
\* allocated cell whose slot holds no payload, and every cell linked after it
\* is allocated and holds one; a pop in progress has the payload in exactly
\* one of the two cells it works on, the cell after the head before the copy
\* and the old head after it; the payload a pop returns is the one its copy
\* took from the cell after the head, never what the sentinel's slot held.
C14_SentinelEmpty ==
    /\ [](\A q \in Queues :
            qst[q] \in {"new", "split"} =>
                /\ cpc[q] \in {"none", "idle", "dropped"} =>
                      /\ Live(head[q])
                      /\ ~init[head[q]]
                      /\ \A c \in SeqSet(ChainFrom(next[head[q]], MaxCells + 1)) :
                            Live(c) /\ init[c]
                /\ cpc[q] = "copy" => ~init[chead[q]] /\ init[cnext[q]]
                /\ cpc[q] \in {"scrub", "sethead"} => init[chead[q]] /\ ~init[cnext[q]])
    /\ [][\A q \in Queues :
            /\ (cpc[q] = "copy" /\ cpc'[q] = "scrub") =>
                  /\ cnext[q] # head[q]
                  /\ data'[chead[q]] = data[cnext[q]]
                  /\ data[cnext[q]] = pushed[q][Len(popped[q]) + 1]
            /\ PopReturnStep(q) =>
                  /\ popped'[q] = Append(popped[q], pushed[q][Len(popped[q]) + 1])
                  /\ ~init[head'[q]]
      ]_vars

\* C14: two pops have completed, so the sentinel's slot holds the bits of a
\* payload that was returned, and one pushed item is still in the list.
C14_Witness ==
    /\ qst["A"] = "split"
    /\ cpc["A"] = "idle"
    /\ Len(pushed["A"]) = 3
    /\ Len(popped["A"]) = 2
    /\ data[head["A"]] = popped["A"][2]
    /\ ~init[head["A"]]
    /\ init[next[head["A"]]]

\* C15: every cell a caller holds through a Node, made by Node::new or
\* returned by a pop of either queue, is allocated, holds a payload and has a
\* null link; so the cell a push is given has a null link, the push leaves
\* that link alone (the one link it writes is the tail's, another cell), and
\* the link is still null when the push ends.
C15_HandlesUnlinked ==
    /\ [](/\ \A c \in nodes : Live(c) /\ init[c] /\ next[c] = Null
          /\ \A q \in Queues : ppc[q] = "settail" => next[pnode[q]] = Null)
    /\ [][\A q \in Queues :
            PushStartStep(q) =>
                /\ pnode'[q] \in nodes
                /\ next[pnode'[q]] = Null
                /\ next'[pnode'[q]] = Null
                /\ tail[q] # pnode'[q]
                /\ \A c \in Cells : c # tail[q] => next'[c] = next[c]
      ]_vars

\* C15: a caller holds cell 1, the first sentinel of A, returned by a pop,
\* and cell 4, made by Node::new and never pushed, while B is in the middle
\* of a push.
C15_Witness ==
    /\ 1 \in nodes
    /\ head["A"] # 1
    /\ 4 \in nodes
    /\ data[4] = 4
    /\ \A q \in Queues : \A i \in DOMAIN pushed[q] : pushed[q][i] # 4
    /\ ppc["B"] = "settail"

\* C16: a pop copies from a cell only when the load that gave it the cell
\* was an acquire load that read the link stored by the release store of the
\* push of that cell; the payload was in the cell before that store and is not
\* written between the store and the copy; so the slot pop copies from is
\* allocated, holds the payload that was pushed and is never read in a race
\* with its writer.
C16_HappensBefore ==
    /\ [](/\ ~ub
          /\ \A c \in rel : Live(c) /\ init[c]
          /\ \A q \in Queues :
                cpc[q] = "copy" =>
                    /\ acq[q]
                    /\ cnext[q] \in rel
                    /\ data[cnext[q]] = pushed[q][Len(popped[q]) + 1])
    /\ [][/\ \A q \in Queues :
              /\ PushStartStep(q) =>
                    /\ init[pnode'[q]]
                    /\ pnode'[q] \notin rel
                    /\ pnode'[q] \in rel'
                    /\ next'[tail[q]] = pnode'[q]
              /\ PopStartStep(q) =>
                    /\ cnext'[q] = next[chead'[q]]
                    /\ cnext'[q] \in rel
                    /\ acq'[q]
          /\ \A c \in rel \cap rel' : data'[c] = data[c] /\ init'[c]
      ]_vars

\* C16: the consumer has loaded the link to a cell whose push has stored the
\* link and not yet moved the tail, and is about to copy the payload.
C16_Witness ==
    /\ ppc["A"] = "settail"
    /\ cpc["A"] = "copy"
    /\ cnext["A"] = pnode["A"]
    /\ acq["A"]
    /\ pnode["A"] \in rel
    /\ Len(pushed["A"]) = 2

\* The cell whose link the next store of the producer of q goes to is c: its
\* tail between two pushes, the cell being pushed once the link is stored.
ProducerTarget(q, c) ==
    \/ ppc[q] = "idle" /\ tail[q] = c
    \/ ppc[q] = "settail" /\ pnode[q] = c

PopScrubStep(q) == cpc[q] = "scrub" /\ cpc'[q] = "sethead"

\* C17: a link changes only in the storing step of a push and in the
\* scrubbing step of a pop.  The push stores to the last cell of the list,
\* whose link is null, and no pop has that cell as the one it will scrub; the
\* pop scrubs the cell it took as head, whose link holds what the producer
\* stored, and no store of the producer is still to go to that cell.  From the
\* load of a pop to its return, and while a caller holds a cell, the cell is
\* not the target of the producer: it becomes one again only as the cell of
\* a later push.
C17_NoConcurrentLinkWrite ==
    /\ [](\A q \in Queues :
          /\ cpc[q] \in {"copy", "scrub"} => next[chead[q]] = cnext[q] /\ cnext[q] # Null
          /\ cpc[q] \in {"copy", "scrub", "sethead"} =>
                \A p \in Queues : ~ProducerTarget(p, chead[q])
          /\ \A c \in nodes : ~ProducerTarget(q, c))
    /\ [][\A c \in Cells :
            (heap[c] = "live" /\ next'[c] # next[c]) =>
                \E q \in Queues :
                    \/ /\ PushStartStep(q)
                       /\ c = tail[q]
                       /\ c = LCells(q)[Len(LCells(q))]
                       /\ next[c] = Null
                       /\ next'[c] = pnode'[q]
                       /\ ~(cpc[q] \in {"copy", "scrub"} /\ chead[q] = c)
                       /\ pnode'[q] \in nodes /\ pnode'[q] # c
                    \/ /\ PopScrubStep(q)
                       /\ c = chead[q]
                       /\ next[c] = cnext[q]
                       /\ next'[c] = Null
                       /\ ~ProducerTarget(q, c)
      ]_vars

\* C17: the producer has stored the link in the first sentinel and not yet
\* moved its tail off it, and the consumer has already scrubbed that link.
C17_Witness ==
    /\ ppc["A"] = "settail"
    /\ cpc["A"] = "sethead"
    /\ tail["A"] = chead["A"]
    /\ next[chead["A"]] = Null
    /\ cnext["A"] = pnode["A"]

\* C18 as stated: the link of the cell that is the head of a live queue is
\* never written by the producer (it changes only in the scrubbing step of a
\* pop).
C18_ProducerNeverAtHead ==
    [][\A q \in Queues :
        (qst[q] = "split" /\ next'[head[q]] # next[head[q]]) => PopScrubStep(q)
      ]_vars

\* C18, amended: the link of the head of a live queue is written by the
\* producer only in the storing step of a push onto an empty list, when the
\* head is also the producer's tail, the link is null and no pop is between
\* its load and its return; every other write to it is the scrubbing store of
\* a pop, made when the link is not null and no store of the producer is
\* still to go to it; and while the link of the head is not null, the head is
\* not the cell the producer stores to next.
C18_HeadLinkAccess ==
    /\ [](\A q \in Queues :
            (qst[q] = "split" /\ next[head[q]] # Null) => ~ProducerTarget(q, head[q]))
    /\ [][\A q \in Queues :
            (qst[q] = "split" /\ next'[head[q]] # next[head[q]]) =>
                \/ /\ PushStartStep(q)
                   /\ tail[q] = head[q]
                   /\ LCells(q) = <<head[q]>>
                   /\ next[head[q]] = Null
                   /\ cpc[q] \in {"idle", "dropped"}
                   /\ popped[q] = pushed[q]
                \/ /\ PopScrubStep(q)
                   /\ chead[q] = head[q]
                   /\ next[head[q]] # Null
                   /\ ~ProducerTarget(q, head[q])
      ]_vars

\* C18: after a pop emptied the list, a push has stored its link in the
\* cell that is the head now (a cell that was pushed earlier).
C18_Witness ==
    /\ ppc["A"] = "settail"
    /\ cpc["A"] = "idle"
    /\ tail["A"] = head["A"]
    /\ next[head["A"]] = pnode["A"]
    /\ Len(popped["A"]) = 1
    /\ Len(pushed["A"]) = 2
    /\ head["A"] # 1

\* The role of cell c: NONE before it is allocated, FREED after; SENTINEL
\* while it is the head of a queue that is alive; HANDLE while a caller holds
\* it through a Node (FRESH when it came from Node::new, DETACHED when it came
\* from a pop: the same shape, told apart by the step that led there); else it
\* is in a list after the head, IN_LIST_TAIL with a null link and IN_LIST_MID
\* with a cell linked after it.
Role(c) ==
    IF heap[c] = "unalloc" THEN "NONE"
    ELSE IF heap[c] = "freed" THEN "FREED"
    ELSE IF \E q \in Queues : qst[q] \in {"new", "split"} /\ head[q] = c THEN "SENTINEL"
    ELSE IF c \in nodes THEN "HANDLE"
    ELSE IF next[c] = Null THEN "IN_LIST_TAIL"
    ELSE "IN_LIST_MID"

\* The order of roles as stated, FRESH and DETACHED both being HANDLE.
StatedOrder ==
    {<<"NONE", "HANDLE">>, <<"HANDLE", "IN_LIST_TAIL">>, <<"IN_LIST_TAIL", "IN_LIST_MID">>,
     <<"IN_LIST_MID", "SENTINEL">>, <<"SENTINEL", "HANDLE">>, <<"HANDLE", "FREED">>}

\* What Queue::new and the Queue destructor do to a cell.
QueueEnds ==
    {<<"NONE", "SENTINEL">>, <<"SENTINEL", "FREED">>, <<"IN_LIST_TAIL", "FREED">>,
     <<"IN_LIST_MID", "FREED">>}

\* C19 as stated: a cell changes role only along FRESH, IN_LIST_TAIL,
\* IN_LIST_MID, SENTINEL, DETACHED, and from there back into a list or to
\* freed, skipping none (the sentinel Queue::new makes and the cells the
\* Queue destructor frees set aside).
C19_StatedOrderOnly ==
    [][\A c \in Cells :
        Role(c)' # Role(c) => <<Role(c), Role(c)'>> \in StatedOrder \cup QueueEnds
      ]_vars

\* C19, amended: a cell changes role only along the stated order or from
\* IN_LIST_TAIL straight to SENTINEL, when it is popped with no cell appended
\* after it; the cell of Queue::new starts as SENTINEL, and the Queue
\* destructor frees the sentinel and the cells in the list.  Each change
\* happens in the step it belongs to: into the list as tail in the storing
\* step of the push of that cell, from tail to mid in the storing step of
\* the next push, to sentinel and from sentinel to handle in the returning
\* step of a pop, from handle to freed by the caller, from the list or
\* sentinel to freed in the destructor.
C19_CellRoles ==
    /\ [](\A c \in Cells :
            /\ Role(c) = "HANDLE" => init[c] /\ next[c] = Null
            /\ Role(c) \in {"IN_LIST_TAIL", "IN_LIST_MID"} =>
                  \E q \in Queues : c \in Owned(q) /\ c \notin nodes)
    /\ [][\A c \in Cells :
            Role(c)' # Role(c) =>
                CASE <<Role(c), Role(c)'>> = <<"NONE", "HANDLE">> ->
                        nalloc' = c /\ nodes' = nodes \cup {c}
                  [] <<Role(c), Role(c)'>> = <<"NONE", "SENTINEL">> ->
                        nalloc' = c /\ \E q \in Queues : qst[q] = "none" /\ head'[q] = c
                  [] <<Role(c), Role(c)'>> = <<"HANDLE", "IN_LIST_TAIL">> ->
                        \E q \in Queues : PushStartStep(q) /\ pnode'[q] = c
                  [] <<Role(c), Role(c)'>> = <<"IN_LIST_TAIL", "IN_LIST_MID">> ->
                        \E q \in Queues : PushStartStep(q) /\ tail[q] = c
                  [] <<Role(c), Role(c)'>> \in {<<"IN_LIST_TAIL", "SENTINEL">>,
                                                <<"IN_LIST_MID", "SENTINEL">>} ->
                        \E q \in Queues : PopReturnStep(q) /\ cnext[q] = c
                  [] <<Role(c), Role(c)'>> = <<"SENTINEL", "HANDLE">> ->
                        \E q \in Queues : PopReturnStep(q) /\ chead[q] = c
                  [] <<Role(c), Role(c)'>> = <<"HANDLE", "FREED">> ->
                        nodes' = nodes \ {c}
                  [] <<Role(c), Role(c)'>> \in {<<"SENTINEL", "FREED">>,
                                                <<"IN_LIST_TAIL", "FREED">>,
                                                <<"IN_LIST_MID", "FREED">>} ->
                        \E q \in Queues : qdrops'[q] = qdrops[q] + 1 /\ c \in Owned(q)
                  [] OTHER -> FALSE
      ]_vars
    /\ [][\A q \in Queues : \A c \in Cells :
            /\ (PushStartStep(q) /\ c = pnode'[q]) =>
                  Role(c) = "HANDLE" /\ Role(c)' = "IN_LIST_TAIL"
            /\ (PopReturnStep(q) /\ c = chead[q]) =>
                  Role(c) = "SENTINEL" /\ Role(c)' = "HANDLE"
            /\ (PopReturnStep(q) /\ c = cnext[q]) =>
                  Role(c) \in {"IN_LIST_TAIL", "IN_LIST_MID"} /\ Role(c)' = "SENTINEL"
      ]_vars

\* C19: cell 2 was pushed, no cell was ever appended after it, and a pop has
\* made it the sentinel.
C19_Witness ==
    /\ Len(pushed["A"]) = 1
    /\ Len(popped["A"]) = 1
    /\ ppc["A"] = "idle"
    /\ Role(2) = "SENTINEL"
    /\ Role(1) = "HANDLE"

PushEndStep(q) == ppc[q] = "settail" /\ ppc'[q] = "idle"

\* C20 as stated: in the storing step of a push the tail cell is the head
\* of the queue or reachable from the head along the links.
C20_TailReachableFromHead ==
    [][\A q \in Queues :
        PushStartStep(q) => tail[q] \in SeqSet(ChainFrom(head[q], MaxCells + 1))
      ]_vars

\* C20, amended: in the storing step of a push the tail cell is allocated
\* and owned by the queue: it is the head, or reachable from the head, or,
\* while a pop is between its scrubbing store and its return, the cell that
\* pop is making the head or reachable from that cell; no caller holds it.
\* A pop returns the cell that is the producer's tail only when the push has
\* stored its link and not yet moved the tail (or the producer is gone); the
\* rest of that push touches no cell, so a tail cell that was returned, and
\* freed or pushed again, is never accessed through the stale tail.
C20_TailOwnedAtStore ==
    /\ [](/\ ~ub
          /\ \A q \in Queues :
                (qst[q] = "split" /\ ppc[q] = "idle") =>
                    Live(tail[q]) /\ tail[q] \in Owned(q) /\ tail[q] \notin nodes)
    /\ [][\A q \in Queues :
            /\ PushStartStep(q) =>
                  /\ Live(tail[q])
                  /\ tail[q] \notin nodes
                  /\ tail[q] \in SeqSet(LCells(q))
                  /\ ~ub'
            /\ (PopReturnStep(q) /\ chead[q] = tail[q]) =>
                  /\ ppc[q] \in {"settail", "dropped"}
                  /\ ppc[q] = "settail" => next[pnode[q]] = Null /\ cnext[q] = pnode[q]
            /\ PushEndStep(q) =>
                  /\ tail'[q] = pnode[q]
                  /\ tail'[q] # tail[q]
                  /\ Live(tail'[q])
                  /\ UNCHANGED <<heapv, ub>>
      ]_vars

\* C20: a push has stored its link and not yet moved the tail; a pop has
\* returned the old tail cell and its caller has freed it.
C20_Witness ==
    /\ ppc["A"] = "settail"
    /\ heap[tail["A"]] = "freed"
    /\ Live(pnode["A"])
    /\ head["A"] = pnode["A"]

====
